---- MODULE Spec2Model ----
(***************************************************************************)
(* A model of grud's dense two-dimensional grid (src/grid.rs) and of its   *)
(* coordinate trait (src/point.rs).                                        *)
(*                                                                         *)
(* A grid is the pair (data, width) of the struct Grid<T>; the height is   *)
(* never stored, it is derived as data.len() / width on every query.       *)
(* Every operation of the public interface is one action.  A Rust panic    *)
(* is modelled as the result of the operation: ret.kind names the panic    *)
(* ("DivideByZero" for an integer division or remainder by zero,           *)
(* "InvalidShape" for the two construction assertions, "OutOfBounds" for   *)
(* the Vec index check) and "ok" names a normal return.  usize arithmetic  *)
(* is exact here: every value of the model is far below 2^64.              *)
(***************************************************************************)
EXTENDS Integers, Sequences, FiniteSets, TLC

\* Largest number of cells of a grid, and so the longest flat sequence, the
\* largest width or height and the largest index or coordinate tried.
MaxLen == 3
\* Element values are 0..MaxVal.
MaxVal == 1

Val == 0 .. MaxVal
Lens == 0 .. MaxLen

SeqsUpTo(S, n) == UNION { [1 .. k -> S] : k \in 0 .. n }

\* Arguments of Grid::new: every shape of at most MaxLen cells.
Dims == { d \in Lens \X Lens : d[1] * d[2] <= MaxLen }

\* Arguments of Grid::with_width: every flat sequence of at most MaxLen
\* elements, with every width up to MaxLen.
FlatSeqs == SeqsUpTo(Val, MaxLen)

\* Arguments of Grid::from: every matrix of at most MaxLen rows and at most
\* MaxLen cells in all, rows of equal and of unequal lengths alike.  A matrix
\* is a flat sequence cut into rows of the lengths l[1], l[2], ...
RECURSIVE Sum(_, _)
Sum(l, k) == IF k = 0 THEN 0 ELSE Sum(l, k - 1) + l[k]
RowLens == { l \in SeqsUpTo(Lens, MaxLen) : Sum(l, Len(l)) <= MaxLen }
Cut(s, l) == [k \in 1 .. Len(l) |-> SubSeq(s, Sum(l, k - 1) + 1, Sum(l, k))]
Matrices ==
    UNION { { Cut(s, l) : l \in { r \in RowLens : Sum(r, Len(r)) = Len(s) } }
            : s \in FlatSeqs }

\* Linear indices tried: MaxLen is out of bounds for every grid.
Idx == 0 .. MaxLen
\* Coordinates tried; a point with x + y > MaxLen projects beyond every grid.
Coords == { c \in Lens \X Lens : c[1] + c[2] <= MaxLen }
Shapes == {"tuple", "array"}

VARIABLES
    grid,   \* the Grid value: [data |-> Vec<T>, width |-> usize]
    alive,  \* TRUE while a grid has been constructed and is owned
    call,   \* the last operation called, with its arguments
    ret     \* what that operation returned, or the panic it raised

vars == <<grid, alive, call, ret>>

\* ---------------------------------------------------------------- results
Ok(v) == [kind |-> "ok", val |-> v]
Panic(k) == [kind |-> k, val |-> 0]

NoGrid == [data |-> <<>>, width |-> 0]
NoCall == [op |-> "none", w |-> 0, h |-> 0, v |-> 0, s |-> <<>>, m |-> <<>>,
           i |-> 0, x |-> 0, y |-> 0, shape |-> "none"]

\* ---------------------------------------------------------------- point.rs
\* A point is [shape, c]: c is the pair or the array, in the order written.
Point(shape, a, b) == [shape |-> shape, c |-> <<a, b>>]

\* fn x(&self): self.0 for (usize, usize), self[0] for [usize; 2]
x(p) == IF p.shape = "tuple" THEN p.c[1] ELSE p.c[1]

\* fn y(&self): self.1 for (usize, usize), self[1] for [usize; 2]
y(p) == IF p.shape = "tuple" THEN p.c[2] ELSE p.c[2]

to_index_swapped(p, w) == x(p) * w + y(p)
\* fn to_index(&self, width): self.y() * width + self.x()
to_index(p, w) == y(p) * w + x(p)

\* ---------------------------------------------------------------- grid.rs
\* Grid::new: vec![default; width * height] and the width.
new(w, h, default) == Ok([data |-> [k \in 1 .. (w * h) |-> default], width |-> w])

\* Grid::with_width: assert_eq!(data.len() % width, 0); the remainder is
\* evaluated first and panics on a zero width before the assertion compares.
with_width(w, data) ==
    IF w = 0 THEN Panic("DivideByZero")
    ELSE IF Len(data) % w # 0 THEN Panic("InvalidShape")
    ELSE Ok([data |-> data, width |-> w])

\* Grid::as_vec
as_vec(g) == g.data

\* Grid::width
width(g) == g.width

\* Grid::height: self.data.len() / self.width()
height(g) ==
    IF width(g) = 0 THEN Panic("DivideByZero")
    ELSE Ok(Len(g.data) \div width(g))

\* Grid::area: self.width() * self.height()
area(g) ==
    LET h == height(g) IN
    IF h.kind # "ok" THEN h ELSE Ok(width(g) * h.val)

index_usize_default(g, i) ==
    IF i >= Len(g.data) THEN Ok(0) ELSE Ok(g.data[i + 1])
\* Index<usize>::index: &self.data[index]
index_usize(g, i) ==
    IF i >= Len(g.data) THEN Panic("OutOfBounds") ELSE Ok(g.data[i + 1])

index_mut_usize_mirrored(g, i, v) ==
    IF i >= Len(g.data) THEN Panic("OutOfBounds")
    ELSE Ok([g EXCEPT !.data[Len(g.data) - i] = v])
\* IndexMut<usize>::index_mut followed by the assignment through the
\* returned reference: the grid after `grid[index] = v`.
index_mut_usize(g, i, v) ==
    IF i >= Len(g.data) THEN Panic("OutOfBounds")
    ELSE Ok([g EXCEPT !.data[i + 1] = v])

\* Index<I: Point>::index: to_index(self.width()) then Index<usize>.
index_point(g, p) == index_usize(g, to_index(p, width(g)))

\* IndexMut<I: Point>::index_mut: to_index(self.width()) then IndexMut<usize>.
index_mut_point(g, p, v) == index_mut_usize(g, to_index(p, width(g)), v)

\* Grid::to_matrix: for j in 0..height() { for i in 0..width() { self[(i, j)] } }
to_matrix(g) ==
    LET h == height(g) IN
    IF h.kind # "ok" THEN h
    ELSE LET cell(i, j) == index_point(g, Point("tuple", i, j)) IN
         IF \E j \in 0 .. (h.val - 1), i \in 0 .. (width(g) - 1) :
                cell(i, j).kind # "ok"
         THEN Panic("OutOfBounds")
         ELSE Ok([j \in 1 .. h.val |->
                    [i \in 1 .. width(g) |-> cell(i - 1, j - 1).val]])

\* data.iter().flat_map(|v| v.clone()).collect()
RECURSIVE flat_map(_)
flat_map(m) == IF m = <<>> THEN <<>> ELSE Head(m) \o flat_map(Tail(m))

\* From<Vec<Vec<T>>>::from
from(m) ==
    IF Len(m) = 0 THEN Ok([data |-> <<>>, width |-> 0])
    ELSE LET w == Len(m[1]) IN
         IF ~ (\A k \in 1 .. Len(m) : Len(m[k]) = w) THEN Panic("InvalidShape")
         ELSE Ok([data |-> flat_map(m), width |-> w])

\* IntoIterator for &Grid: self.data.iter(), collected in the order yielded.
iter(g) == [k \in 1 .. Len(g.data) |-> g.data[k]]

\* IntoIterator for &mut Grid: self.data.iter_mut() driven by `*i += 1`.
iter_mut(g) == [g EXCEPT !.data = [k \in 1 .. Len(g.data) |-> g.data[k] + 1]]

\* ---------------------------------------------------------------- actions
Init ==
    /\ grid = NoGrid
    /\ alive = FALSE
    /\ call = NoCall
    /\ ret = Panic("none")

\* A constructor either returns the grid or panics and returns nothing.
Construct(c, r) ==
    /\ call' = c
    /\ ret' = [kind |-> r.kind, val |-> 0]
    /\ alive' = (r.kind = "ok")
    /\ grid' = IF r.kind = "ok" THEN r.val ELSE NoGrid

\* Nothing is constructed yet: a run constructs one grid and then uses it.
Fresh == call.op = "none"

CallNew ==
    /\ Fresh
    /\ \E d \in Dims, v \in Val :
          Construct([NoCall EXCEPT !.op = "new", !.w = d[1], !.h = d[2], !.v = v],
                    new(d[1], d[2], v))

CallWithWidth ==
    /\ Fresh
    /\ \E w \in Lens, s \in FlatSeqs :
          Construct([NoCall EXCEPT !.op = "with_width", !.w = w, !.s = s],
                    with_width(w, s))

CallFrom ==
    /\ Fresh
    /\ \E m \in Matrices :
          Construct([NoCall EXCEPT !.op = "from", !.m = m], from(m))

\* A panic ends the run: operations are called while none has panicked.
\* A read: the grid is borrowed immutably.
Read(c, r) ==
    /\ alive
    /\ ret.kind = "ok"
    /\ call' = c
    /\ ret' = r
    /\ UNCHANGED <<grid, alive>>

\* A write: the grid is replaced by the result unless the operation panics.
Write(c, r) ==
    /\ alive
    /\ ret.kind = "ok"
    /\ call' = c
    /\ ret' = [kind |-> r.kind, val |-> 0]
    /\ grid' = IF r.kind = "ok" THEN r.val ELSE grid
    /\ UNCHANGED alive

CallAsVec == Read([NoCall EXCEPT !.op = "as_vec"], Ok(as_vec(grid)))

CallWidth == Read([NoCall EXCEPT !.op = "width"], Ok(width(grid)))

CallHeight == Read([NoCall EXCEPT !.op = "height"], height(grid))

CallArea == Read([NoCall EXCEPT !.op = "area"], area(grid))

CallToMatrix == Read([NoCall EXCEPT !.op = "to_matrix"], to_matrix(grid))

CallIndexUsize ==
    \E i \in Idx :
        Read([NoCall EXCEPT !.op = "index", !.i = i], index_usize(grid, i))

CallIndexMutUsize ==
    \E i \in Idx, v \in Val :
        Write([NoCall EXCEPT !.op = "index_mut", !.i = i, !.v = v],
              index_mut_usize(grid, i, v))

CallIndexPoint ==
    \E s \in Shapes, c \in Coords :
        Read([NoCall EXCEPT !.op = "index_point", !.shape = s, !.x = c[1], !.y = c[2]],
             index_point(grid, Point(s, c[1], c[2])))

CallIndexMutPoint ==
    \E s \in Shapes, c \in Coords, v \in Val :
        Write([NoCall EXCEPT !.op = "index_mut_point", !.shape = s,
                             !.x = c[1], !.y = c[2], !.v = v],
              index_mut_point(grid, Point(s, c[1], c[2]), v))

CallIter == Read([NoCall EXCEPT !.op = "iter"], Ok(iter(grid)))

\* The increment is applied only while every element stays within Val.
CallIterMut ==
    /\ \A k \in 1 .. Len(grid.data) : grid.data[k] < MaxVal
    /\ Write([NoCall EXCEPT !.op = "iter_mut"], Ok(iter_mut(grid)))

Next ==
    \/ CallNew
    \/ CallWithWidth
    \/ CallFrom
    \/ CallAsVec
    \/ CallWidth
    \/ CallHeight
    \/ CallArea
    \/ CallToMatrix
    \/ CallIndexUsize
    \/ CallIndexMutUsize
    \/ CallIndexPoint
    \/ CallIndexMutPoint
    \/ CallIter
    \/ CallIterMut

Spec == Init /\ [][Next]_vars

\* ---------------------------------------------------------------- claims

\* C1: Grid::new(width, height, v) succeeds for every width and height,
\* zero included, and the grid then answers width() = width,
\* height() = height and area() = width * height without failing, and every
\* element of as_vec() is v.
C1_NewShapeAndFill ==
    call.op = "new" =>
        /\ ret.kind = "ok"
        /\ alive
        /\ width(grid) = call.w
        /\ height(grid).kind = "ok"
        /\ height(grid).val = call.h
        /\ area(grid).kind = "ok"
        /\ area(grid).val = call.w * call.h
        /\ \A k \in 1 .. Len(as_vec(grid)) : as_vec(grid)[k] = call.v

\* C2: Grid::with_width(width, data) fails with the invalid-shape error, and
\* returns no grid, whenever data.len() is not evenly divisible by width;
\* a zero width with non-empty data is such a case and is never reported as
\* a remainder by zero.
C2_WithWidthInvalidShape ==
    ( /\ call.op = "with_width"
      /\ \/ call.w = 0 /\ Len(call.s) # 0
         \/ call.w # 0 /\ Len(call.s) % call.w # 0 )
    => (ret.kind = "InvalidShape" /\ ~ alive)

\* C3: for every well-formed matrix M (the empty outer sequence, or rows
\* that all have the same length, length 0 included) Grid::from(M).to_matrix()
\* completes and equals M.
C3_MatrixRoundTrip ==
    ( /\ call.op = "from"
      /\ \A k \in 1 .. Len(call.m) : Len(call.m[k]) = Len(call.m[1]) )
    => /\ ret.kind = "ok"
       /\ to_matrix(grid).kind = "ok"
       /\ to_matrix(grid).val = call.m

\* C4: construction from a non-empty matrix succeeds exactly when every row
\* is as long as the first; then width() is that length, height() is the
\* number of rows and as_vec() is the rows concatenated in order; otherwise
\* it fails with the invalid-shape error and no grid is returned.
C4_FromMatrixShape ==
    (call.op = "from" /\ call.m # <<>>) =>
        LET m == call.m
            w == Len(m[1])
            same == \A k \in 1 .. Len(m) : Len(m[k]) = w
        IN  /\ (ret.kind = "ok") <=> same
            /\ same =>
                /\ alive
                /\ width(grid) = w
                /\ height(grid).kind = "ok"
                /\ height(grid).val = Len(m)
                /\ Len(as_vec(grid)) = w * Len(m)
                /\ \A r \in 1 .. Len(m), c \in 1 .. w :
                       as_vec(grid)[(r - 1) * w + c] = m[r][c]
            /\ ~ same => (ret.kind = "InvalidShape" /\ ~ alive)

\* C5: in every state of every constructed grid, width() and height() are
\* both computable and the length of the backing sequence is
\* width() * height().
C5_LengthIsWidthTimesHeight ==
    alive =>
        /\ height(grid).kind = "ok"
        /\ Len(grid.data) = width(grid) * height(grid).val

\* C6: for every coordinate (x, y) with x < width and y < height, reading
\* grid[(x, y)] returns the element grid[y * width + x], and the pair (x, y)
\* and the array [x, y] read the same element.
C6_CoordinateReadIsLinearRead ==
    alive =>
        /\ \A a \in Lens, b \in Lens :
               ( /\ a < width(grid)
                 /\ height(grid).kind = "ok"
                 /\ b < height(grid).val )
               => /\ index_point(grid, Point("tuple", a, b)).kind = "ok"
                  /\ index_point(grid, Point("tuple", a, b))
                         = index_usize(grid, b * width(grid) + a)
                  /\ index_point(grid, Point("array", a, b))
                         = index_point(grid, Point("tuple", a, b))
        /\ ( /\ call.op = "index_point"
             /\ call.x < width(grid)
             /\ height(grid).kind = "ok"
             /\ call.y < height(grid).val )
           => ret = Ok(grid.data[call.y * width(grid) + call.x + 1])

C6_Witness ==
    /\ alive
    /\ call.op = "index_point"
    /\ call.shape = "array"
    /\ call.x = 0
    /\ call.y = 2
    /\ width(grid) = 1
    /\ grid.data = <<0, 0, 1>>
    /\ ret = Ok(1)

\* C7: a read or a write by a linear index i, or by a coordinate projecting
\* to i = y * width + x, with i at or beyond the length of the backing
\* sequence fails with the out-of-bounds error and leaves the grid as it
\* was; on an empty grid index 0 is already out of bounds.
C7_OutOfBoundsFailsUnmodified ==
    [][ ( /\ alive
          /\ call'.op \in {"index", "index_mut", "index_point", "index_mut_point"}
          /\ LET i == IF call'.op \in {"index", "index_mut"}
                      THEN call'.i
                      ELSE call'.y * width(grid) + call'.x
             IN  i >= Len(grid.data) )
        => (ret'.kind = "OutOfBounds" /\ grid' = grid /\ alive') ]_vars

C7_Witness ==
    /\ alive
    /\ grid.data = <<>>
    /\ call.op = "index"
    /\ call.i = 0
    /\ ret.kind = "OutOfBounds"

\* C8: an in-bounds write through a linear index or a coordinate replaces
\* exactly one slot: reading the location back by either addressing mode
\* returns the written value, every other slot keeps its value, and
\* width(), height() and the length of the backing sequence are unchanged.
C8_WriteReplacesOneSlot ==
    [][ LET byIndex == call'.op = "index_mut"
            i == IF byIndex THEN call'.i ELSE call'.y * width(grid) + call'.x
        IN  ( /\ alive
              /\ call'.op \in {"index_mut", "index_mut_point"}
              /\ i < Len(grid.data) )
            => /\ ret'.kind = "ok"
               /\ alive'
               /\ width(grid') = width(grid)
               /\ height(grid').kind = "ok"
               /\ height(grid') = height(grid)
               /\ Len(grid'.data) = Len(grid.data)
               /\ \A k \in 1 .. Len(grid.data) :
                      grid'.data[k] = IF k = i + 1 THEN call'.v ELSE grid.data[k]
               /\ index_usize(grid', i) = Ok(call'.v)
               /\ \A s \in Shapes :
                      index_point(grid', Point(s, IF byIndex THEN i % width(grid) ELSE call'.x,
                                                  IF byIndex THEN i \div width(grid) ELSE call'.y))
                          = Ok(call'.v) ]_vars

C8_Witness ==
    /\ alive
    /\ call.op = "index_mut_point"
    /\ call.x = 0
    /\ call.y = 2
    /\ call.v = 1
    /\ ret.kind = "ok"
    /\ width(grid) = 1
    /\ grid.data = <<0, 0, 1>>

\* C9: immutable iteration yields exactly area() elements in linear-index
\* order, element k being grid[k], and a fresh request yields the same
\* sequence again; mutable iteration incrementing every visited element
\* leaves every element incremented exactly once and the shape unchanged.
C9_IterationVisitsArea ==
    [][ /\ (alive /\ call'.op = "iter") =>
              /\ ret'.kind = "ok"
              /\ area(grid).kind = "ok"
              /\ Len(ret'.val) = area(grid).val
              /\ \A k \in 1 .. Len(ret'.val) :
                     Ok(ret'.val[k]) = index_usize(grid, k - 1)
              /\ iter(grid') = ret'.val
        /\ (alive /\ call'.op = "iter_mut") =>
              /\ ret'.kind = "ok"
              /\ Len(grid'.data) = Len(grid.data)
              /\ \A k \in 1 .. Len(grid.data) : grid'.data[k] = grid.data[k] + 1
              /\ width(grid') = width(grid)
              /\ height(grid') = height(grid) ]_vars

\* C10: a coordinate read or write with x >= width() or y >= height() fails
\* with the out-of-bounds error and neither reads nor overwrites a cell; a
\* coordinate with x >= width() whose projection is below area() does not
\* address a cell of a later row.
C10_OutsideShapeFails ==
    [][ ( /\ alive
          /\ call'.op \in {"index_point", "index_mut_point"}
          /\ \/ call'.x >= width(grid)
             \/ height(grid).kind = "ok" /\ call'.y >= height(grid).val )
        => (ret'.kind = "OutOfBounds" /\ grid' = grid) ]_vars

====
